---- MODULE Spec2Model ----
(***************************************************************************)
(* State-machine model of sidecar/simulation_engine.py: run_with_simpy     *)
(* (the SimPy event queue, one Store and one block_process per block, the  *)
(* event_injector), run_deterministic, process() and the loop of main()    *)
(* over the request lines of stdin.                                        *)
(*                                                                         *)
(* Simulated time, durations and processing times are integers in ms;      *)
(* failure_rate and the random draw are in percent (0..100);               *)
(* utilization is in units of 1/10000 (the code rounds to 4 decimals).     *)
(***************************************************************************)
EXTENDS Integers, Sequences, FiniteSets, TLC

VARIABLES
    request,        \* the payload: edges, scenario (duration_ms, events), block_behaviors
    SIMPY_OK,       \* whether the import of simpy succeeded
    now,            \* env.now
    queue,          \* env._queue: the scheduled events
    eid,            \* env._eid: the next insertion sequence number
    items,          \* block_stores[b].items
    get_queue,      \* block_stores[b].get_queue is non-empty (the block's pending Get)
    pc,             \* where each process (block_process, event_injector) is suspended
    locals,         \* block_process locals: item, item_seq, start, failed, proc_time
    inj_idx,        \* event_injector: index of the event it is waiting for
    block_counters, \* per block: processed, failures, busy_time
    timeline,       \* the timeline list
    response,       \* what process() returned ("none" while running)
    accepted,       \* history: number of items ever put into each block's Store
    attempts,       \* history: for each block, the injector's delivery attempts
    stdin,          \* main(): the request lines not yet read
    outputs,        \* main(): the responses printed so far, each with its request
    scored,         \* req_parser process(): the results as scored, before the sort
    results,        \* req_parser process(): the results list it returns
    parser_pc       \* req_parser: "absent", "scored" or "done"

vars == <<request, SIMPY_OK, now, queue, eid, items, get_queue, pc, locals,
          inj_idx, block_counters, timeline, response, accepted, attempts,
          stdin, outputs, scored, results, parser_pc>>

-----------------------------------------------------------------------------
(* Bounds of the model *)

\* a block process is not resumed with an item once it has taken MaxSeq items
MaxSeq == 3
\* the scenarios have at most MaxEvents stimulus events
MaxEvents == 3
\* stdin holds at most MaxLines request lines
MaxLines == 3
\* the requirements extractor scores at most MaxResults results
MaxResults == 3

-----------------------------------------------------------------------------
(* Python values *)

\* None, as returned by dict.get for a missing key
None == -999

\* a string that float() rejects with ValueError, such as "abc"
NotANumber == -998

\* Python's `x or d` for a number or None
Or(x, d) == IF x = None \/ x = 0 THEN d ELSE x

Min(a, b) == IF a < b THEN a ELSE b
Max(a, b) == IF a > b THEN a ELSE b

\* the defaults of the `or` expressions
DefaultDurationMs == 10000
DefaultQueueCapacity == 100
DefaultProcessingTimeMs == 100

\* simpy.core: priorities of scheduled events
URGENT == 0
NORMAL == 1

-----------------------------------------------------------------------------
(* The request *)

\* project_json["nodes"]: two blocks and one node of another kind
Nodes == << [id |-> "b1", kind |-> "block"],
            [id |-> "n1", kind |-> "note"],
            [id |-> "b2", kind |-> "block"] >>

\* block_nodes = {n["id"]: n for n in nodes if n.get("kind") == "block"}, in order
IsBlockNode(n) == n.kind = "block"
block_nodes == SelectSeq(Nodes, IsBlockNode)
BlockIds == {block_nodes[i].id : i \in 1..Len(block_nodes)}

Edge(k, s, t) == [kind |-> k, source_id |-> s, target_id |-> t]

EdgeLists ==
    { <<>>,
      << Edge("connects", "b1", "b2"), Edge("connects", "b1", "b2") >>,
      << Edge("connects", "b1", "b1"), Edge("connects", "b1", "b2") >>,
      << Edge("connects", "b1", "b2"), Edge("connects", "b2", "b1") >>,
      << Edge("flows", "b1", "b2"), Edge("connects", "b1", "n1") >> }

\* the sim_script texts of the model, by what they do when exec'd:
\*   ""        no script
\*   "raise"   raise ValueError("boom")
\*   "notmap"  result = None
\*   "nan"     result["processing_time_ms"] = "abc"
\*   "neg"     result["processing_time_ms"] = -1
\*   "zero"    result["processing_time_ms"] = 0
\*   "fail"    result["failed"] = True
Scripts == {"", "raise", "notmap", "nan", "neg", "zero", "fail"}

SimParams(pt, fr, cap, tps) ==
    [processing_time_ms |-> pt, failure_rate |-> fr,
     queue_capacity |-> cap, throughput_per_sec |-> tps]

Behavior(p, s) == [sim_params |-> p, sim_script |-> s]

\* one scenario event; block_id "" stands for a missing target
Stimulus(t, b) == [time_ms |-> t, block_id |-> b, signal_type |-> "trigger", value |-> 0]

EventChoices ==
    { Stimulus(0, "b1"), Stimulus(2, "b1"), Stimulus(-1, "n1") }

\* the value of an event is its position in the scenario's list
Numbered(s) == [i \in 1..Len(s) |-> [s[i] EXCEPT !.value = i]]

\* the scenarios: the lists of at most MaxEvents events in time order, and
\* the lists of two events in any order
InTimeOrder(s) == \A i, j \in 1..Len(s) : i < j => s[i].time_ms <= s[j].time_ms

\* scenarios with an event that names no target
MissingTargetLists ==
    { << Stimulus(0, ""), Stimulus(0, "b1") >>,
      << Stimulus(0, "b1"), Stimulus(0, ""), Stimulus(2, "b1") >> }

EventLists ==
    {Numbered(s) : s \in {l \in UNION {[1..n -> EventChoices] : n \in 0..MaxEvents} :
                             InTimeOrder(l) \/ Len(l) = 2}
                          \cup MissingTargetLists}

Durations == {0, 2}

B1Behaviors ==
    {Behavior(SimParams(1, 0, cap, None), "") : cap \in {0, 1, 2}}
    \cup {Behavior(SimParams(2, 0, 1, None), "")}
    \cup {Behavior(SimParams(1, fr, 1, None), "") : fr \in {50, 100}}
    \cup {Behavior(SimParams(1, fr, 1, None), "raise") : fr \in {0, 100}}
    \cup {Behavior(SimParams(1, 100, 1, None), s) : s \in {"notmap", "nan"}}
    \cup {Behavior(SimParams(1, 0, 1, None), s) : s \in {"neg", "zero", "fail"}}
    \cup {Behavior(SimParams(0, 0, 1, None), "")}

\* b2's capacity and policy vary in the graphs whose first edge leads to b2
B2Behaviors(e) ==
    IF e # <<>> /\ e[1].kind = "connects" /\ e[1].target_id = "b2"
    THEN {Behavior(SimParams(1, 0, cap, None), "") : cap \in {0, 1}}
         \cup {Behavior(SimParams(1, 0, 1, None), "neg")}
    ELSE {Behavior(SimParams(1, 0, 1, None), "")}

EngineRequests ==
    UNION {
        { [edges |-> e, scenario |-> [duration_ms |-> d, events |-> evs],
           block_behaviors |-> ("b1" :> x) @@ ("b2" :> y)] :
            d \in Durations, evs \in EventLists, x \in B1Behaviors, y \in B2Behaviors(e) } :
        e \in EdgeLists }

\* the requests handled without simpy: the parameters of b1 vary, b2 is fixed
DetBehaviors ==
    {Behavior(SimParams(pt, fr, 1, tps), s) :
        pt \in {0, 100, 300}, fr \in {0, 30, 50, 100},
        tps \in {None, 0, 3, 10, NotANumber}, s \in {"", "fail"}}

DetRequests ==
    { [edges |-> e, scenario |-> [duration_ms |-> d, events |-> evs],
       block_behaviors |-> ("b1" :> x) @@ ("b2" :> Behavior(SimParams(100, 0, 1, None), ""))] :
        e \in {<<>>, << Edge("connects", "b1", "b2") >>},
        d \in {0, 250, 1000, 10000},
        evs \in {<<>>, Numbered(<< Stimulus(0, "b1") >>)},
        x \in DetBehaviors }

\* the request lines of the inputs of more than one line, with simpy: a run
\* without random draws, a run whose policy aborts it, a run with random draws
EngineLine(fr, s) ==
    [edges |-> <<>>,
     scenario |-> [duration_ms |-> 2, events |-> Numbered(<< Stimulus(0, "b1") >>)],
     block_behaviors |-> ("b1" :> Behavior(SimParams(1, fr, 1, None), s))
                         @@ ("b2" :> Behavior(SimParams(1, 0, 1, None), ""))]

EngineLines == {EngineLine(0, ""), EngineLine(0, "neg"), EngineLine(50, "")}

\* ... and without simpy: two lines that differ in the edges, the events and
\* the policy only, and a line with other sim_params
DetLine(e, evs, p, s) ==
    [edges |-> e, scenario |-> [duration_ms |-> 250, events |-> evs],
     block_behaviors |-> ("b1" :> Behavior(p, s))
                         @@ ("b2" :> Behavior(SimParams(100, 0, 1, None), ""))]

DetLines ==
    { DetLine(<<>>, <<>>, SimParams(100, 30, 1, None), ""),
      DetLine(<< Edge("connects", "b1", "b2") >>, Numbered(<< Stimulus(0, "b1") >>),
              SimParams(100, 30, 1, None), "fail"),
      DetLine(<<>>, <<>>, SimParams(100, 30, 1, 3), "") }

\* the lines that follow the first line r on stdin
Rest(r, lines) ==
    IF r \in lines
    THEN UNION {[1..n -> lines] : n \in 0..(MaxLines - 1)}
    ELSE {<<>>}

-----------------------------------------------------------------------------
(* run_with_simpy: configuration read from the request *)

\* duration_ms = float(scenario.get("duration_ms") or 10000)
duration_ms == Or(request.scenario.duration_ms, DefaultDurationMs)

params(b) == request.block_behaviors[b].sim_params

\* capacity = int(params.get("queue_capacity") or 100)
capacity(b) == Or(params(b).queue_capacity, DefaultQueueCapacity)

\* processing_time_ms = float(params.get("processing_time_ms") or 100.0)
processing_time_ms(b) == Or(params(b).processing_time_ms, DefaultProcessingTimeMs)

\* failure_rate = float(params.get("failure_rate") or 0.0)
failure_rate(b) == Or(params(b).failure_rate, 0)

\* key=lambda e: float(e.get("time_ms") or 0)
TimeKey(e) == Or(e.time_ms, 0)

\* sorted() is stable: an event goes after the events whose key is <= its own
RECURSIVE Insert(_, _)
Insert(s, e) ==
    IF s = <<>> THEN <<e>>
    ELSE IF TimeKey(Head(s)) <= TimeKey(e)
         THEN <<Head(s)>> \o Insert(Tail(s), e)
         ELSE <<e>> \o s

\* mutant of sorted: the list is taken as it is given
unsorted(s) == s

RECURSIVE sorted(_)
sorted(s) ==
    IF s = <<>> THEN <<>>
    ELSE Insert(sorted(SubSeq(s, 1, Len(s) - 1)), s[Len(s)])

\* events = sorted(scenario.get("events") or [], key=...)
events == sorted(request.scenario.events)

-----------------------------------------------------------------------------
(* simpy: the environment and the Store.  The operators below thread a     *)
(* record st = [queue, eid, items, get_queue, accepted] through the        *)
(* statements of a handler; t is env.now.                                  *)

NoItem == [src |-> "", val |-> 0, n |-> 0]

\* mutant of Before: among entries of equal time and priority the one inserted
\* later comes first
BeforeLifo(e, f) ==
    \/ e.time < f.time
    \/ e.time = f.time /\ e.priority < f.priority
    \/ e.time = f.time /\ e.priority = f.priority /\ e.eid > f.eid

\* heap order of the queue entries: (time, priority, eid)
Before(e, f) ==
    \/ e.time < f.time
    \/ e.time = f.time /\ e.priority < f.priority
    \/ e.time = f.time /\ e.priority = f.priority /\ e.eid < f.eid

\* heappush: the queue is kept as the sequence of its entries in heap order
Push(q, e) ==
    LET k == Cardinality({i \in 1..Len(q) : Before(q[i], e)})
    IN SubSeq(q, 1, k) \o <<e>> \o SubSeq(q, k + 1, Len(q))

\* Environment.schedule: heappush(queue, (now + delay, priority, next(eid), event))
schedule(st, t, priority, delay, kind, proc, value) ==
    [st EXCEPT
        !.queue = Push(@, [time |-> t + delay, priority |-> priority, eid |-> st.eid,
                           kind |-> kind, proc |-> proc, value |-> value]),
        !.eid = @ + 1]

\* the entry Environment.step pops
NextEvent == Head(queue)

\* Store.put(item) with room: _do_put appends and the Put event succeeds at once;
\* n numbers the items accepted by this Store (history)
StorePut(st, t, b, src, val) ==
    schedule([st EXCEPT
                 !.items[b] = Append(@, [src |-> src, val |-> val,
                                         n |-> st.accepted[b] + 1]),
                 !.accepted[b] = @ + 1],
             t, NORMAL, 0, "put", b, NoItem)

\* mutant of try_put: the put is made whether or not the Store has room
try_putUnguarded(st, t, b, src, val) == StorePut(st, t, b, src, val)

\* if len(store.items) < store.capacity: store.put(item)
try_put(st, t, b, src, val) ==
    IF Len(st.items[b]) < capacity(b) THEN StorePut(st, t, b, src, val) ELSE st

\* mutant of StoreGet: the Get takes the item put last
StoreGetLast(st, t, b) ==
    IF st.items[b] # <<>>
    THEN schedule([st EXCEPT !.items[b] = SubSeq(@, 1, Len(@) - 1)],
                  t, NORMAL, 0, "get", b, st.items[b][Len(st.items[b])])
    ELSE [st EXCEPT !.get_queue[b] = TRUE]

\* mutant of StoreGet: the Get returns the head item and leaves it in the Store
StoreGetPeek(st, t, b) ==
    IF st.items[b] # <<>>
    THEN schedule(st, t, NORMAL, 0, "get", b, Head(st.items[b]))
    ELSE [st EXCEPT !.get_queue[b] = TRUE]

\* store.get(): _do_get succeeds at once with the head item, else the Get waits
StoreGet(st, t, b) ==
    IF st.items[b] # <<>>
    THEN schedule([st EXCEPT !.items[b] = Tail(@)],
                  t, NORMAL, 0, "get", b, Head(st.items[b]))
    ELSE [st EXCEPT !.get_queue[b] = TRUE]

\* mutant of TriggerGet: a processed Put does not serve the waiting Get
TriggerGetNever(st, t, b) == st

\* mutant of TriggerGet: a processed Put hands the head item to the block
\* whether or not its Get is waiting
TriggerGetAlways(st, t, b) ==
    IF st.items[b] # <<>>
    THEN schedule([st EXCEPT !.items[b] = Tail(@), !.get_queue[b] = FALSE],
                  t, NORMAL, 0, "get", b, Head(st.items[b]))
    ELSE st

\* BaseResource._trigger_get, the callback of a processed Put
TriggerGet(st, t, b) ==
    IF st.get_queue[b] /\ st.items[b] # <<>>
    THEN schedule([st EXCEPT !.items[b] = Tail(@), !.get_queue[b] = FALSE],
                  t, NORMAL, 0, "get", b, Head(st.items[b]))
    ELSE st
-----------------------------------------------------------------------------
(* run_with_simpy: construction *)

Procs == BlockIds \cup {"injector"}

EmptyEnv ==
    [queue |-> <<>>, eid |-> 0,
     items |-> [b \in BlockIds |-> <<>>],
     get_queue |-> [b \in BlockIds |-> FALSE],
     accepted |-> [b \in BlockIds |-> 0]]

\* for bid, store in block_stores.items(): env.process(block_process(env, bid, store))
\* (Process.__init__ schedules an Initialize event, URGENT, at time 0)
RECURSIVE LaunchBlocks(_, _)
LaunchBlocks(st, i) ==
    IF i > Len(block_nodes) THEN st
    ELSE LaunchBlocks(schedule(st, 0, URGENT, 0, "init", block_nodes[i].id, NoItem), i + 1)

\* if scenario_events: env.process(event_injector(env))
LaunchInjector(st) ==
    IF request.scenario.events # <<>>
    THEN schedule(st, 0, URGENT, 0, "init", "injector", NoItem)
    ELSE st

\* mutant of RunUntil: the until event comes after the other events of its time
RunUntilLast(st) == schedule(st, 0, NORMAL + 1, duration_ms, "until", "", NoItem)

\* env.run(until=duration_ms): the until event is scheduled URGENT at duration_ms
RunUntil(st) == schedule(st, 0, URGENT, duration_ms, "until", "", NoItem)

Constructed == RunUntil(LaunchInjector(LaunchBlocks(EmptyEnv, 1)))

NoLocals == [item |-> NoItem, item_seq |-> 0, start |-> 0, failed |-> FALSE, proc_time |-> 0]

NoMetrics == [b \in {} |-> 0]

NoResponse == [status |-> "none", metrics |-> NoMetrics, timeline |-> <<>>, errors |-> <<>>]

EngineInit ==
    /\ request \in EngineRequests
    /\ SIMPY_OK = TRUE
    /\ now = 0
    /\ queue = Constructed.queue
    /\ eid = Constructed.eid
    /\ items = Constructed.items
    /\ get_queue = Constructed.get_queue
    /\ accepted = Constructed.accepted
    /\ pc = [p \in Procs |->
               IF p = "injector" /\ request.scenario.events = <<>> THEN "absent" ELSE "init"]
    /\ locals = [b \in BlockIds |-> NoLocals]
    /\ inj_idx = 0
    /\ block_counters = [b \in BlockIds |-> [processed |-> 0, failures |-> 0, busy_time |-> 0]]
    /\ timeline = <<>>
    /\ response = NoResponse
    /\ attempts = <<>>
    /\ stdin \in Rest(request, EngineLines)
    /\ outputs = <<>>
    /\ scored = <<>> /\ results = <<>> /\ parser_pc = "absent"

-----------------------------------------------------------------------------
(* Environment.step: pop the next event, advance now, run its callbacks *)

Running == SIMPY_OK /\ response.status = "none" /\ queue # <<>>

Pop(e) ==
    [queue |-> Tail(queue), eid |-> eid, items |-> items,
     get_queue |-> get_queue, accepted |-> accepted]

Commit(st) ==
    /\ queue' = st.queue
    /\ eid' = st.eid
    /\ items' = st.items
    /\ get_queue' = st.get_queue
    /\ accepted' = st.accepted

\* Initialize of a block process: runs block_process up to `yield store.get()`
StepInitializeBlock(b) ==
    /\ Running
    /\ NextEvent.kind = "init" /\ NextEvent.proc = b
    /\ now' = NextEvent.time
    /\ Commit(StoreGet(Pop(NextEvent), NextEvent.time, b))
    /\ pc' = [pc EXCEPT ![b] = "get"]
    /\ UNCHANGED <<request, SIMPY_OK, locals, inj_idx, block_counters, timeline,
                   response, attempts, stdin, outputs, scored, results, parser_pc>>

\* mutant of InjectorNext: the injector returns after an event whose target is
\* no block
InjectorNextStops(st, t, i) ==
    IF i <= Len(events) /\ (i = 1 \/ events[i - 1].block_id \in BlockIds)
    THEN schedule(st, t, NORMAL, Max(0, TimeKey(events[i]) - t), "timeout", "injector", NoItem)
    ELSE schedule(st, t, NORMAL, 0, "process_ok", "injector", NoItem)

\* delay = max(0.0, target_time - env.now); yield env.timeout(delay), for events[i];
\* past the last event the generator returns and the Process event is scheduled
InjectorNext(st, t, i) ==
    IF i <= Len(events)
    THEN schedule(st, t, NORMAL, Max(0, TimeKey(events[i]) - t), "timeout", "injector", NoItem)
    ELSE schedule(st, t, NORMAL, 0, "process_ok", "injector", NoItem)

\* Initialize of the injector: runs event_injector up to its first timeout
StepInitializeInjector ==
    /\ Running
    /\ NextEvent.kind = "init" /\ NextEvent.proc = "injector"
    /\ now' = NextEvent.time
    /\ Commit(InjectorNext(Pop(NextEvent), NextEvent.time, 1))
    /\ inj_idx' = 1
    /\ pc' = [pc EXCEPT !["injector"] = "timeout"]
    /\ UNCHANGED <<request, SIMPY_OK, locals, block_counters, timeline, response, attempts, stdin, outputs, scored, results, parser_pc>>

\* if target_id and target_id in block_stores: if len(store.items) < store.capacity
InjectorAccepts(ev) ==
    /\ ev.block_id # ""
    /\ ev.block_id \in BlockIds
    /\ Len(items[ev.block_id]) < capacity(ev.block_id)

\* the timeline entry of a delivered stimulus
StimulusEntry(ev, t) ==
    [timestamp_ms |-> t, block_id |-> ev.block_id, event_type |-> "stimulus",
     detail |-> [signal |-> ev.signal_type, item_seq |-> 0, elapsed |-> 0]]

\* the injector's timeout: deliver events[inj_idx], then wait for the next event
StepInjector ==
    /\ Running
    /\ NextEvent.kind = "timeout" /\ NextEvent.proc = "injector"
    /\ LET t == NextEvent.time
           ev == events[inj_idx]
           ok == InjectorAccepts(ev)
           st1 == IF ok THEN StorePut(Pop(NextEvent), t, ev.block_id, "stimulus", ev.value)
                        ELSE Pop(NextEvent)
       IN /\ now' = t
          /\ Commit(InjectorNext(st1, t, inj_idx + 1))
          /\ timeline' = IF ok THEN Append(timeline, StimulusEntry(ev, t)) ELSE timeline
          /\ attempts' = Append(attempts, [idx |-> inj_idx, time |-> t, accepted |-> ok])
    /\ inj_idx' = inj_idx + 1
    /\ pc' = [pc EXCEPT !["injector"] = IF inj_idx < Len(events) THEN "timeout" ELSE "done"]
    /\ UNCHANGED <<request, SIMPY_OK, locals, block_counters, response, stdin, outputs, scored, results, parser_pc>>

\* the Process event of the injector that returned: nothing is waiting for it
StepProcessEnded ==
    /\ Running
    /\ NextEvent.kind = "process_ok"
    /\ now' = NextEvent.time
    /\ Commit(Pop(NextEvent))
    /\ UNCHANGED <<request, SIMPY_OK, pc, locals, inj_idx, block_counters, timeline,
                   response, attempts, stdin, outputs, scored, results, parser_pc>>

\* a processed Put event: its callback _trigger_get serves the block's waiting Get
StepPut(b) ==
    /\ Running
    /\ NextEvent.kind = "put" /\ NextEvent.proc = b
    /\ now' = NextEvent.time
    /\ Commit(TriggerGet(Pop(NextEvent), NextEvent.time, b))
    /\ UNCHANGED <<request, SIMPY_OK, pc, locals, inj_idx, block_counters, timeline,
                   response, attempts, stdin, outputs, scored, results, parser_pc>>
-----------------------------------------------------------------------------
(* block_process *)

\* the values random.random() takes in the model, in percent of [0, 1)
RandomDraws == {0, 75}

\* exec(script, {}, local_ctx) and the two reads of local_ctx["result"] raise
\* an Exception: the script raises, result is no mapping, or float() fails
ScriptRaises(script) == script \in {"raise", "notmap", "nan"}

\* local_ctx["result"] after a script that ran through
ScriptResult(script, b) ==
    [failed |-> script = "fail",
     processing_time_ms |->
        IF script = "neg" THEN -1
        ELSE IF script = "zero" THEN 0
        ELSE processing_time_ms(b)]

\* mutant of ScriptFallback: the faulted item is failed by the parametric rule
\* (with the draw 0)
ScriptFallbackParametric(b) ==
    [failed |-> 0 < failure_rate(b), proc_time |-> processing_time_ms(b)]

\* the except branch: failed = False; proc_time = processing_time_ms
ScriptFallback(b) == [failed |-> FALSE, proc_time |-> processing_time_ms(b)]

\* failed = random.random() < failure_rate; proc_time = processing_time_ms
Parametric(b) ==
    {[failed |-> draw < failure_rate(b), proc_time |-> processing_time_ms(b)] :
        draw \in RandomDraws}

\* the (failed, proc_time) pairs the policy of block b can yield for an item
Policy(b) ==
    LET script == request.block_behaviors[b].sim_script
    IN IF script # ""
       THEN IF ScriptRaises(script)
            THEN {ScriptFallback(b)}
            ELSE {[failed |-> ScriptResult(script, b).failed,
                   proc_time |-> ScriptResult(script, b).processing_time_ms]}
       ELSE Parametric(b)

\* yield env.timeout(proc_time): Timeout raises ValueError on a negative delay,
\* which no except clause of block_process catches: the Process fails
BlockTimeout(st, t, b, proc_time) ==
    IF proc_time < 0
    THEN schedule(st, t, NORMAL, 0, "process_fail", b, NoItem)
    ELSE schedule(st, t, NORMAL, proc_time, "timeout", b, NoItem)

\* a processed Get event: block_process resumes with the item, runs the policy
\* and suspends on the timeout
StepGet(b) ==
    /\ Running
    /\ NextEvent.kind = "get" /\ NextEvent.proc = b
    /\ locals[b].item_seq < MaxSeq
    /\ now' = NextEvent.time
    /\ \E pol \in Policy(b) :
          /\ Commit(BlockTimeout(Pop(NextEvent), NextEvent.time, b, pol.proc_time))
          /\ locals' = [locals EXCEPT ![b] =
                           [item |-> NextEvent.value, item_seq |-> @.item_seq + 1,
                            start |-> NextEvent.time, failed |-> pol.failed,
                            proc_time |-> pol.proc_time]]
          /\ pc' = [pc EXCEPT ![b] = IF pol.proc_time < 0 THEN "failed" ELSE "timeout"]
    /\ UNCHANGED <<request, SIMPY_OK, inj_idx, block_counters, timeline, response, attempts, stdin, outputs, scored, results, parser_pc>>

\* mutant of Forward: the edge list is walked from its end
RECURSIVE ForwardReversed(_, _, _, _, _)
ForwardReversed(st, t, b, item_seq, i) ==
    IF i > Len(request.edges) THEN st
    ELSE LET edge == request.edges[i]
             rest == ForwardReversed(st, t, b, item_seq, i + 1)
         IN IF /\ edge.kind = "connects"
               /\ edge.source_id = b
               /\ edge.target_id \in BlockIds
            THEN try_put(rest, t, edge.target_id, b, item_seq)
            ELSE rest

\* for edge in edges: forward item_seq along the connects edges of block b
RECURSIVE Forward(_, _, _, _, _)
Forward(st, t, b, item_seq, i) ==
    IF i > Len(request.edges) THEN st
    ELSE LET edge == request.edges[i]
         IN Forward(IF /\ edge.kind = "connects"
                       /\ edge.source_id = b
                       /\ edge.target_id \in BlockIds
                    THEN try_put(st, t, edge.target_id, b, item_seq)
                    ELSE st,
                    t, b, item_seq, i + 1)

\* mutant of ItemEntry: the entry is stamped with the item's start time
ItemEntryAtStart(b, t, failed, item_seq, elapsed) ==
    [timestamp_ms |-> t - elapsed, block_id |-> b,
     event_type |-> IF failed THEN "failure" ELSE "processed",
     detail |-> [signal |-> "", item_seq |-> item_seq, elapsed |-> elapsed]]

\* mutant of ItemEntry: every completed item is recorded as processed
ItemEntryProcessed(b, t, failed, item_seq, elapsed) ==
    [timestamp_ms |-> t, block_id |-> b,
     event_type |-> "processed",
     detail |-> [signal |-> "", item_seq |-> item_seq, elapsed |-> elapsed]]

\* the timeline entry of a completed item: stamped env.now, with
\* detail "item {item_seq} done in / failed after {elapsed}ms"
ItemEntry(b, t, failed, item_seq, elapsed) ==
    [timestamp_ms |-> t, block_id |-> b,
     event_type |-> IF failed THEN "failure" ELSE "processed",
     detail |-> [signal |-> "", item_seq |-> item_seq, elapsed |-> elapsed]]

\* mutant of Count: a failed item is also counted as processed
CountBoth(c, failed, elapsed) ==
    [processed |-> c.processed + 1,
     failures |-> IF failed THEN c.failures + 1 ELSE c.failures,
     busy_time |-> c.busy_time + elapsed]

\* mutant of Count: a failed item adds nothing to the busy time
CountNoBusyOnFailure(c, failed, elapsed) ==
    [processed |-> IF failed THEN c.processed ELSE c.processed + 1,
     failures |-> IF failed THEN c.failures + 1 ELSE c.failures,
     busy_time |-> IF failed THEN c.busy_time ELSE c.busy_time + elapsed]

\* counters after an item that took `elapsed`
Count(c, failed, elapsed) ==
    [processed |-> IF failed THEN c.processed ELSE c.processed + 1,
     failures |-> IF failed THEN c.failures + 1 ELSE c.failures,
     busy_time |-> c.busy_time + elapsed]

\* the block's timeout: count the item, append its entry, forward it on success,
\* then loop to `yield store.get()`
StepTimeout(b) ==
    /\ Running
    /\ NextEvent.kind = "timeout" /\ NextEvent.proc = b
    /\ LET t == NextEvent.time
           l == locals[b]
           st1 == IF l.failed THEN Pop(NextEvent)
                  ELSE Forward(Pop(NextEvent), t, b, l.item_seq, 1)
       IN /\ now' = t
          /\ block_counters' = [block_counters EXCEPT ![b] = Count(@, l.failed, t - l.start)]
          /\ timeline' = Append(timeline, ItemEntry(b, t, l.failed, l.item_seq, t - l.start))
          /\ Commit(StoreGet(st1, t, b))
    /\ pc' = [pc EXCEPT ![b] = "get"]
    /\ locals' = [locals EXCEPT ![b].item = NoItem]
    /\ UNCHANGED <<request, SIMPY_OK, inj_idx, response, attempts, stdin, outputs, scored, results, parser_pc>>

-----------------------------------------------------------------------------
(* the end of env.run and the response *)

\* round(x, 4) of a / b in units of 1/10000, ties to even
Scale == 10000
RoundDiv(a, b) ==
    LET q == (a * Scale) \div b
        r == (a * Scale) % b
    IN IF 2 * r < b THEN q
       ELSE IF 2 * r > b THEN q + 1
       ELSE IF q % 2 = 0 THEN q ELSE q + 1

\* util = busy_time / duration_ms if duration_ms > 0 else 0.0; round(min(util, 1.0), 4)
Utilization(busy_time) ==
    IF duration_ms > 0 THEN RoundDiv(Min(busy_time, duration_ms), duration_ms) ELSE 0

\* mutant of Metrics: the item a block is processing counts as queued
MetricsWithInFlight ==
    [b \in BlockIds |->
        [utilization |-> Utilization(block_counters[b].busy_time),
         queue_depth |-> Len(items[b]) + (IF pc[b] = "timeout" THEN 1 ELSE 0),
         processed_count |-> block_counters[b].processed,
         failures |-> block_counters[b].failures]]

\* the metrics built after env.run returned
Metrics ==
    [b \in BlockIds |->
        [utilization |-> Utilization(block_counters[b].busy_time),
         queue_depth |-> Len(items[b]),
         processed_count |-> block_counters[b].processed,
         failures |-> block_counters[b].failures]]

\* the until event: StopSimulation ends env.run; run_with_simpy returns the response
StepUntil ==
    /\ Running
    /\ NextEvent.kind = "until"
    /\ now' = NextEvent.time
    /\ Commit(Pop(NextEvent))
    /\ response' = [status |-> "complete", metrics |-> Metrics,
                    timeline |-> timeline, errors |-> <<>>]
    /\ UNCHANGED <<request, SIMPY_OK, pc, locals, inj_idx, block_counters, timeline, attempts, stdin, outputs, scored, results, parser_pc>>

\* mutant of StepProcessFailed: the error response carries what the run had
\* produced when it was aborted
StepProcessFailedPartial ==
    /\ Running
    /\ NextEvent.kind = "process_fail"
    /\ now' = NextEvent.time
    /\ Commit(Pop(NextEvent))
    /\ response' = [status |-> "error", metrics |-> Metrics, timeline |-> timeline,
                    errors |-> <<"Negative delay -1", "traceback">>]
    /\ UNCHANGED <<request, SIMPY_OK, pc, locals, inj_idx, block_counters, timeline,
                   attempts, stdin, outputs, scored, results, parser_pc>>

\* the event of a failed Process: Environment.step re-raises its exception, env.run
\* and run_with_simpy propagate it, process() catches it
StepProcessFailed ==
    /\ Running
    /\ NextEvent.kind = "process_fail"
    /\ now' = NextEvent.time
    /\ Commit(Pop(NextEvent))
    /\ response' = [status |-> "error", metrics |-> NoMetrics, timeline |-> <<>>,
                    errors |-> <<"Negative delay -1", "traceback">>]
    /\ UNCHANGED <<request, SIMPY_OK, pc, locals, inj_idx, block_counters, timeline, attempts, stdin, outputs, scored, results, parser_pc>>

-----------------------------------------------------------------------------

(* run_deterministic *)

\* mutant of DetProcessed: a block with the policy "fail" processes nothing
DetProcessedScripted(b) ==
    IF request.block_behaviors[b].sim_script = "fail" THEN 0
    ELSE IF params(b).throughput_per_sec # None /\ params(b).throughput_per_sec # 0
         THEN (params(b).throughput_per_sec * duration_ms) \div 1000
         ELSE duration_ms \div processing_time_ms(b)

\* processed: from throughput_per_sec if truthy, else from processing_time_ms
\* (int() truncates; the operands are non-negative)
DetProcessed(b) ==
    IF params(b).throughput_per_sec # None /\ params(b).throughput_per_sec # 0
    THEN (params(b).throughput_per_sec * duration_ms) \div 1000
    ELSE IF processing_time_ms(b) > 0
         THEN duration_ms \div processing_time_ms(b)
         ELSE 0

\* mutant of DetFailures: the product is rounded up
DetFailuresRoundedUp(b) == (DetProcessed(b) * failure_rate(b) + 99) \div 100

\* failures = int(processed * failure_rate)
DetFailures(b) == (DetProcessed(b) * failure_rate(b)) \div 100

\* mutant of DetUtilization: the ratio is taken of the items that did not fail
DetUtilizationOfCount(b) ==
    IF duration_ms > 0
    THEN RoundDiv(Min(processing_time_ms(b) * (DetProcessed(b) - DetFailures(b)),
                      duration_ms), duration_ms)
    ELSE 0

\* mutant of DetUtilization: the ratio is not clamped to 1.0
DetUtilizationUnclamped(b) ==
    IF duration_ms > 0
    THEN RoundDiv(processing_time_ms(b) * DetProcessed(b), duration_ms)
    ELSE 0

\* util = min(processing_time_ms * processed / duration_ms, 1.0) if duration_ms > 0 else 0.0
DetUtilization(b) ==
    IF duration_ms > 0
    THEN RoundDiv(Min(processing_time_ms(b) * DetProcessed(b), duration_ms), duration_ms)
    ELSE 0

\* mutant of DetMetrics: the nodes of another kind are not skipped
DetMetricsAllNodes ==
    [n \in {Nodes[i].id : i \in 1..Len(Nodes)} |->
        [utilization |-> 0, queue_depth |-> 0,
         processed_count |-> IF n \in BlockIds THEN DetProcessed(n) ELSE 0,
         failures |-> 0]]

\* for node in nodes: if node.get("kind") != "block": continue; metrics[block_id] = ...
DetMetrics ==
    [b \in BlockIds |->
        [utilization |-> DetUtilization(b),
         queue_depth |-> 0,
         processed_count |-> Max(0, DetProcessed(b) - DetFailures(b)),
         failures |-> DetFailures(b)]]

\* the state before process() runs without simpy: no environment is built
DetInit ==
    /\ request \in DetRequests
    /\ SIMPY_OK = FALSE
    /\ now = 0
    /\ queue = EmptyEnv.queue
    /\ eid = EmptyEnv.eid
    /\ items = EmptyEnv.items
    /\ get_queue = EmptyEnv.get_queue
    /\ accepted = EmptyEnv.accepted
    /\ pc = [p \in Procs |-> "absent"]
    /\ locals = [b \in BlockIds |-> NoLocals]
    /\ inj_idx = 0
    /\ block_counters = [b \in BlockIds |-> [processed |-> 0, failures |-> 0, busy_time |-> 0]]
    /\ timeline = <<>>
    /\ response = NoResponse
    /\ attempts = <<>>
    /\ stdin \in Rest(request, DetLines)
    /\ outputs = <<>>
    /\ scored = <<>> /\ results = <<>> /\ parser_pc = "absent"

\* float(throughput_per_sec) raises ValueError for a block of the request
DetRaises == \E b \in BlockIds : params(b).throughput_per_sec = NotANumber

\* process() when SIMPY_OK is false: return run_deterministic(...), or the error
\* response of the except clause when run_deterministic raised
RunDeterministic ==
    /\ ~SIMPY_OK
    /\ response.status = "none"
    /\ response' = IF DetRaises
                   THEN [status |-> "error", metrics |-> NoMetrics, timeline |-> <<>>,
                         errors |-> <<"could not convert string to float", "traceback">>]
                   ELSE [status |-> "complete", metrics |-> DetMetrics, timeline |-> <<>>,
                         errors |-> <<"SimPy is not installed">>]
    /\ UNCHANGED <<request, SIMPY_OK, now, queue, eid, items, get_queue, pc, locals,
                   inj_idx, block_counters, timeline, accepted, attempts, stdin, outputs, scored, results, parser_pc>>

-----------------------------------------------------------------------------
(* main *)

\* block_counters = {bid: {"processed": 0, "failures": 0, "busy_time": 0.0} ...}
NewCounters == [b \in BlockIds |-> [processed |-> 0, failures |-> 0, busy_time |-> 0]]

\* for line in sys.stdin: the response to the last line is printed, the next line
\* is read and process() is entered: run_with_simpy builds its environment,
\* Stores, counters and processes; the timeline of the new run is tl
ReadLine(tl) ==
    /\ response.status # "none"
    /\ stdin # <<>>
    /\ outputs' = Append(outputs, [request |-> request, response |-> response])
    /\ request' = Head(stdin)
    /\ stdin' = Tail(stdin)
    /\ now' = 0
    /\ Commit(IF SIMPY_OK THEN Constructed' ELSE EmptyEnv)
    /\ pc' = [p \in Procs |->
                IF ~SIMPY_OK \/ (p = "injector" /\ request'.scenario.events = <<>>)
                THEN "absent" ELSE "init"]
    /\ locals' = [b \in BlockIds |-> NoLocals]
    /\ inj_idx' = 0
    /\ block_counters' = NewCounters
    /\ timeline' = tl
    /\ response' = NoResponse
    /\ attempts' = <<>>
    /\ UNCHANGED <<SIMPY_OK, scored, results, parser_pc>>

\* mutant of MainNext: the timeline list outlives the run
MainNextStale == ReadLine(timeline)

\* timeline: List[Dict] = [] in each run
MainNext == ReadLine(<<>>)

-----------------------------------------------------------------------------
(* req_parser.py: the requirements extractor, a program of its own *)

\* the lexemes of the sentences: words in upper and lower case, and a
\* punctuation mark, which is no word
Lexemes == {"The", "the", "pump", "shall", "run", "fast", "now", "."}

\* str.lower() of a lexeme
Lower(w) == IF w = "The" THEN "the" ELSE w

\* whether \b\w+\b matches the lexeme
IsWord(w) == w # "."

\* the sentences of the scored results, each a sequence of lexemes
Sentences ==
    { <<"The", "pump", "shall">>,
      <<"the", "pump", "shall", "run", ".">>,
      <<"the", "pump", "shall", "run", "fast">>,
      <<"The", "the", "pump", "shall">>,
      <<"run", "fast", "now">>,
      <<".">> }

\* the scores of the results, as normalize_ui_score yields them, in tenths
Scores == {1, 2}

\* a result as process() appends it
Result(sentence, score) == [sentence |-> sentence, score |-> score, duplicate |-> FALSE]

ScoredLists ==
    UNION {[1..n -> {Result(t, c) : t \in Sentences, c \in Scores}] : n \in 0..MaxResults}

\* tokens(text): set(re.findall(r"\b\w+\b", text.lower()))
tokens(text) == {Lower(text[i]) : i \in {j \in 1..Len(text) : IsWord(text[j])}}

\* the inner loop: some accepted result has word tokens, as the current one
\* has, and len(current & prev_tokens) / len(current | prev_tokens) >= 0.75
IsDuplicate(current, accepted_results) ==
    \E k \in 1..Len(accepted_results) :
        LET prev_tokens == tokens(accepted_results[k].sentence)
        IN /\ current # {} /\ prev_tokens # {}
           /\ 4 * Cardinality(current \cap prev_tokens)
                 >= 3 * Cardinality(current \cup prev_tokens)

\* mutant of accept: a duplicate is accepted as well
acceptAll(accepted_results, result, duplicate) == Append(accepted_results, result)

\* if not duplicate: accepted.append(result)
accept(accepted_results, result, duplicate) ==
    IF duplicate THEN accepted_results ELSE Append(accepted_results, result)

\* the outer loop of deduplicate from result i on: each result gets its
\* duplicate flag in place
RECURSIVE deduplicate_from(_, _, _)
deduplicate_from(rs, i, accepted_results) ==
    IF i > Len(rs) THEN rs
    ELSE LET duplicate == IsDuplicate(tokens(rs[i].sentence), accepted_results)
         IN deduplicate_from([rs EXCEPT ![i].duplicate = duplicate], i + 1,
                             accept(accepted_results, rs[i], duplicate))

deduplicate(rs) == deduplicate_from(rs, 1, <<>>)

\* list.sort(key=score, reverse=True) is stable: a result goes after the
\* results whose score is >= its own
RECURSIVE InsertByScore(_, _)
InsertByScore(s, r) ==
    IF s = <<>> THEN <<r>>
    ELSE IF Head(s).score >= r.score
         THEN <<Head(s)>> \o InsertByScore(Tail(s), r)
         ELSE <<r>> \o s

RECURSIVE sort_by_score(_)
sort_by_score(s) ==
    IF s = <<>> THEN <<>>
    ELSE InsertByScore(sort_by_score(SubSeq(s, 1, Len(s) - 1)), s[Len(s)])

\* the extractor has scored the results of a payload; the engine is not part
\* of this program
ParserInit ==
    /\ scored \in ScoredLists
    /\ results = scored
    /\ parser_pc = "scored"
    /\ request = DetLine(<<>>, <<>>, SimParams(100, 0, 1, None), "")
    /\ SIMPY_OK = FALSE
    /\ now = 0
    /\ queue = EmptyEnv.queue
    /\ eid = EmptyEnv.eid
    /\ items = EmptyEnv.items
    /\ get_queue = EmptyEnv.get_queue
    /\ accepted = EmptyEnv.accepted
    /\ pc = [p \in Procs |-> "absent"]
    /\ locals = [b \in BlockIds |-> NoLocals]
    /\ inj_idx = 0
    /\ block_counters = NewCounters
    /\ timeline = <<>>
    /\ response = NoResponse
    /\ attempts = <<>>
    /\ stdin = <<>>
    /\ outputs = <<>>

\* the end of process(): results.sort(...); results = deduplicate(results)
ParserProcess ==
    /\ parser_pc = "scored"
    /\ results' = deduplicate(sort_by_score(results))
    /\ parser_pc' = "done"
    /\ UNCHANGED <<request, SIMPY_OK, now, queue, eid, items, get_queue, pc, locals,
                   inj_idx, block_counters, timeline, response, accepted, attempts,
                   stdin, outputs, scored>>

ParserNext == ParserProcess

ParserSpec == ParserInit /\ [][ParserNext]_vars

-----------------------------------------------------------------------------

Init == EngineInit \/ DetInit

Next ==
    \/ \E b \in BlockIds : StepInitializeBlock(b)
    \/ StepInitializeInjector
    \/ StepInjector
    \/ StepProcessEnded
    \/ \E b \in BlockIds : StepPut(b)
    \/ \E b \in BlockIds : StepGet(b)
    \/ \E b \in BlockIds : StepTimeout(b)
    \/ StepUntil
    \/ StepProcessFailed
    \/ RunDeterministic
    \/ MainNext

Spec == Init /\ [][Next]_vars
-----------------------------------------------------------------------------
(* Helpers of the properties *)

\* the number of timeline entries of the given types for block b
RECURSIVE CountEntries(_, _, _)
CountEntries(tl, types, b) ==
    IF tl = <<>> THEN 0
    ELSE (IF Head(tl).event_type \in types /\ Head(tl).block_id = b THEN 1 ELSE 0)
         + CountEntries(Tail(tl), types, b)

\* the injector's attempts (all, or the accepted ones) at stimuli that name a block
BlockAttempts ==
    {i \in 1..Len(attempts) : events[attempts[i].idx].block_id \in BlockIds}
AcceptedAttempts == {i \in BlockAttempts : attempts[i].accepted}
DroppedAttempts == {i \in BlockAttempts : ~attempts[i].accepted}

Completed(b) == block_counters[b].processed + block_counters[b].failures

Script(b) == request.block_behaviors[b].sim_script

-----------------------------------------------------------------------------
(* C1 *)

\* C1 (as claimed): in every state of a run, each block's Store holds at most the
\* block's configured queue_capacity items (0 included), and so does the
\* reported queue_depth.
C1_DepthWithinConfiguredCapacity ==
    \A b \in BlockIds :
        /\ Len(items[b]) <= params(b).queue_capacity
        /\ response.status = "complete" =>
              response.metrics[b].queue_depth <= params(b).queue_capacity

-----------------------------------------------------------------------------
(* C2 *)

\* C2: at every point of a run, processed + failures of a block is at most the
\* number of items ever accepted into its Store, in the counters and in the
\* reported metrics.
C2_CountedAtMostAccepted ==
    SIMPY_OK =>
        \A b \in BlockIds :
            /\ Completed(b) <= accepted[b]
            /\ response.status = "complete" =>
                  response.metrics[b].processed_count + response.metrics[b].failures
                      <= accepted[b]

\* a run in which a stimulus was dropped and b1 completed two items
C2_Witness ==
    /\ DroppedAttempts # {}
    /\ Completed("b1") >= 2
    /\ response.status = "complete"

-----------------------------------------------------------------------------
(* C3 *)

\* C3: the timeline is ordered in time: of any two entries, the one appended
\* later has a timestamp_ms >= that of the one appended earlier.
C3_TimelineOrdered ==
    \A i, j \in 1..Len(timeline) :
        i < j => timeline[i].timestamp_ms <= timeline[j].timestamp_ms

\* a stimulus entry appended after a block's entry of an earlier time, and a
\* block's entry appended after a stimulus entry
C3_Witness ==
    \E i, j, k \in 1..Len(timeline) :
        /\ i < j /\ j < k
        /\ timeline[i].event_type = "stimulus"
        /\ timeline[j].event_type \in {"processed", "failure"}
        /\ timeline[k].event_type = "stimulus"
        /\ timeline[j].timestamp_ms < timeline[k].timestamp_ms

-----------------------------------------------------------------------------
(* C4 *)

\* the scenario of C4: exactly two stimuli, with the same time_ms, for the same
\* block, whose queue_capacity is 1 (the block is idle when they arrive)
C4_Case ==
    /\ SIMPY_OK
    /\ Len(events) = 2
    /\ events[1].block_id \in BlockIds
    /\ events[1].block_id = events[2].block_id
    /\ TimeKey(events[1]) = TimeKey(events[2])
    /\ params(events[1].block_id).queue_capacity = 1

\* C4 (as claimed): of the two stimuli exactly one is accepted, and only one
\* processed or failure entry ever results from the pair.
C4_ExactlyOneAccepted ==
    C4_Case /\ Len(attempts) = 2 =>
        /\ Cardinality(AcceptedAttempts) = 1
        /\ CountEntries(timeline, {"processed", "failure"}, events[1].block_id) <= 1

\* C4 (amended): both stimuli are accepted, the timeline has one stimulus entry
\* for each, and in a run that halts at the default duration each of the two
\* results in its own processed or failure entry.
C4_BothAccepted ==
    C4_Case =>
        LET b == events[1].block_id
        IN /\ \A i \in 1..Len(attempts) : attempts[i].accepted
           /\ CountEntries(timeline, {"stimulus"}, b) = Len(attempts)
           /\ response.status = "complete" /\ duration_ms = DefaultDurationMs =>
                 CountEntries(response.timeline, {"processed", "failure"}, b) >= 2

\* the pair was delivered and the run has halted with both items completed
C4_Witness ==
    /\ C4_Case
    /\ Len(attempts) = 2
    /\ response.status = "complete"
    /\ CountEntries(response.timeline, {"stimulus"}, events[1].block_id) = 2
    /\ CountEntries(response.timeline, {"processed", "failure"}, events[1].block_id) = 2

-----------------------------------------------------------------------------
(* C5 *)

\* C5 (as claimed): every stimulus that was attempted at an existing block has
\* exactly one stimulus entry in the timeline, accepted or dropped.
C5_EntryPerAttempt ==
    SIMPY_OK =>
        \A b \in BlockIds :
            CountEntries(timeline, {"stimulus"}, b)
                = Cardinality({i \in BlockAttempts : events[attempts[i].idx].block_id = b})

-----------------------------------------------------------------------------
(* C6 *)

\* C6 (as claimed): with duration_ms = 0 the run halts at time 0: nothing is
\* processed and every block reports utilization, processed_count and
\* queue_depth 0.
C6_ZeroDurationHaltsAtOnce ==
    request.scenario.duration_ms = 0 =>
        /\ now = 0
        /\ \A b \in BlockIds : Completed(b) = 0
        /\ response.status = "complete" =>
              \A b \in BlockIds :
                  /\ response.metrics[b].utilization = 0
                  /\ response.metrics[b].processed_count = 0
                  /\ response.metrics[b].queue_depth = 0

-----------------------------------------------------------------------------
(* C7 *)

\* the scripts that raise or leave a malformed result
FaultyScripts == {"raise", "notmap", "nan", "neg"}

\* C7 (as claimed): with a faulty custom policy the run is never aborted: the
\* response, once there, has status "complete" and no errors.
C7_FaultyPolicyNeverAborts ==
    (SIMPY_OK /\ \E b \in BlockIds : Script(b) \in FaultyScripts) =>
        /\ response.status \in {"none", "complete"}
        /\ response.errors = <<>>

-----------------------------------------------------------------------------
(* C8 *)

\* C8 (as claimed): an item on which the policy faults is failed by the
\* parametric rule: with failure_rate = 1 every such item is a failure.
C8_FaultFollowsFailureRate ==
    \A b \in BlockIds :
        (SIMPY_OK /\ ScriptRaises(Script(b)) /\ failure_rate(b) = 100) =>
            block_counters[b].processed = 0

\* C8 (amended): an item on which the policy faults takes processing_time_ms
\* and is never marked failed, whatever the failure_rate.
C8_FaultIsNeverFailure ==
    \A b \in BlockIds :
        (SIMPY_OK /\ ScriptRaises(Script(b))) =>
            /\ block_counters[b].failures = 0
            /\ block_counters[b].busy_time
                  = block_counters[b].processed * processing_time_ms(b)
            /\ pc[b] = "timeout" =>
                  ~locals[b].failed /\ locals[b].proc_time = processing_time_ms(b)

\* a block with failure_rate = 1 whose faulting policy handled two items
C8_Witness ==
    /\ ScriptRaises(Script("b1"))
    /\ failure_rate("b1") = 100
    /\ block_counters["b1"].processed >= 2
    /\ response.status = "complete"

-----------------------------------------------------------------------------
(* C9 *)

-----------------------------------------------------------------------------
(* C10 *)

\* the step is the injector delivering events[inj_idx]
InjectorDelivers == inj_idx >= 1 /\ inj_idx' = inj_idx + 1

\* the step is block b completing an item successfully
Forwards(b) == block_counters'[b].processed = block_counters[b].processed + 1

\* the number of connects edges from b to c, from position i on
RECURSIVE EdgeCount(_, _, _)
EdgeCount(b, c, i) ==
    IF i > Len(request.edges) THEN 0
    ELSE (IF /\ request.edges[i].kind = "connects"
             /\ request.edges[i].source_id = b
             /\ request.edges[i].target_id = c
          THEN 1 ELSE 0) + EdgeCount(b, c, i + 1)

\* Store c after m inserts of (src, val) that found room
Inserted(c, src, val, m) ==
    items[c] \o [j \in 1..m |-> [src |-> src, val |-> val, n |-> accepted[c] + j]]

\* the inserts that find room among k attempts on Store c
Room(c, k) == Min(k, Max(capacity(c) - Len(items[c]), 0))

\* the injector's delivery: a full Store is left as it is, a Store with room
\* gets the item at its tail; no other Store changes, no error is raised and
\* the injector has registered its next step at the same simulated time
InjectorFrame ==
    LET ev == events[inj_idx]
    IN /\ \A c \in BlockIds :
             items'[c] = IF c = ev.block_id
                         THEN Inserted(c, "stimulus", ev.value, Room(c, 1))
                         ELSE items[c]
       /\ response' = response
       /\ \E i \in 1..Len(queue') :
             /\ queue'[i].proc = "injector"
             /\ queue'[i].eid >= eid
             /\ queue'[i].time >= now'

\* block b's forwarding: a target Store gets as many copies as find room, at
\* its tail, a full Store is left as it is; b then takes the head of its own
\* Store, if any; no error is raised and b is suspended on its next get
ForwardFrame(b) ==
    /\ \A c \in BlockIds :
          LET after == Inserted(c, b, locals[b].item_seq, Room(c, EdgeCount(b, c, 1)))
          IN items'[c] = IF c = b /\ after # <<>> THEN Tail(after) ELSE after
    /\ response' = response
    /\ pc'[b] = "get"

\* C10: an insert into a full Store leaves the buffer unchanged, raises no
\* error and the sender continues at the same simulated time; an insert into a
\* Store with room appends the item at the tail.
C10_DropOnFull ==
    [][ /\ InjectorDelivers => InjectorFrame
        /\ \A b \in BlockIds : Forwards(b) => ForwardFrame(b) ]_vars

\* a stimulus was dropped at a full Store, and b1 forwarded over two edges to
\* b2, whose Store had room for one copy only
C10_Witness ==
    /\ DroppedAttempts # {}
    /\ EdgeCount("b1", "b2", 1) = 2
    /\ capacity("b2") = 1
    /\ block_counters["b1"].processed >= 1
    /\ accepted["b2"] < 2 * block_counters["b1"].processed

-----------------------------------------------------------------------------
(* C11 *)

\* the next step resumes block b with an item that b forwarded to itself out of
\* the last item it completed
TakesOwnForward(b) ==
    /\ Running
    /\ NextEvent.kind = "get" /\ NextEvent.proc = b
    /\ NextEvent.value.src = b
    /\ NextEvent.value.val = locals[b].item_seq

\* C11 (as claimed): the run terminates because every turn of a cycle of the
\* graph takes simulated time: when a block takes an item it forwarded to
\* itself, time has advanced since it took the item before, also with a policy
\* that returns processing_time_ms = 0.
C11_CycleTakesTime ==
    \A b \in BlockIds : TakesOwnForward(b) => NextEvent.time > locals[b].start

-----------------------------------------------------------------------------
(* C12 *)

\* the requests handled by this process with their responses, in order
Exchanges ==
    outputs \o (IF response.status # "none"
                THEN << [request |-> request, response |-> response] >>
                ELSE <<>>)

\* the parametric failure decision of request r depends on the value drawn
DrawsRandom(r) ==
    \E b \in BlockIds :
        /\ r.block_behaviors[b].sim_script = ""
        /\ 0 < r.block_behaviors[b].sim_params.failure_rate
        /\ r.block_behaviors[b].sim_params.failure_rate < 100

\* C12 (as claimed): two runs of the engine on the same request, one with a
\* failure_rate strictly between 0 and 1 included, give identical metrics and
\* identical timelines.
C12_SameRequestSameRun ==
    SIMPY_OK =>
        \A i, j \in 1..Len(Exchanges) :
            Exchanges[i].request = Exchanges[j].request =>
                /\ Exchanges[i].response.metrics = Exchanges[j].response.metrics
                /\ Exchanges[i].response.timeline = Exchanges[j].response.timeline

-----------------------------------------------------------------------------
(* C13 *)

\* a run is about to start: process() was entered and no event was processed
AtStart == response.status = "none" /\ \A p \in Procs : pc[p] \in {"init", "absent"}

\* C13: every run starts from fresh Stores, counters, event queue and timeline,
\* whatever was handled before it, a run that ended in an error included; and
\* a request whose outcome depends on no random draw gets the same response
\* wherever it stands among the request lines.
C13_StatelessBetweenRequests ==
    /\ AtStart =>
          /\ now = 0
          /\ timeline = <<>>
          /\ block_counters = NewCounters
          /\ \A b \in BlockIds : items[b] = <<>> /\ ~get_queue[b] /\ accepted[b] = 0
          /\ SIMPY_OK => queue = Constructed.queue /\ eid = Len(queue)
          /\ ~SIMPY_OK => queue = <<>>
    /\ \A i, j \in 1..Len(Exchanges) :
          (Exchanges[i].request = Exchanges[j].request /\ ~DrawsRandom(Exchanges[i].request))
              => Exchanges[i].response = Exchanges[j].response

\* a request was answered, then a request ended in an error, then the first
\* request was handled again, with items processed in both of its runs
C13_Witness ==
    /\ Len(outputs) = 2
    /\ outputs[2].response.status = "error"
    /\ outputs[1].request = request
    /\ outputs[1].response.status = "complete"
    /\ outputs[1].response.timeline # <<>>
    /\ response.status = "complete"

-----------------------------------------------------------------------------
(* C14 *)

Advisory == "SimPy is not installed"

\* C14: without simpy a request that run_deterministic handles without a fault
\* is answered with status "complete", exactly one advisory string in errors,
\* an empty timeline and one metrics entry per block; status "error" is
\* returned only for a fault of run_deterministic, and then without advisory.
C14_DegradesWithAdvisory ==
    (~SIMPY_OK /\ response.status # "none") =>
        IF DetRaises
        THEN response.status = "error" /\ \A i \in 1..Len(response.errors) :
                                             response.errors[i] # Advisory
        ELSE /\ response.status = "complete"
             /\ response.errors = << Advisory >>
             /\ response.timeline = <<>>
             /\ DOMAIN response.metrics = BlockIds

\* the approximator answered a request with an edge, a stimulus and a policy
C14_Witness ==
    /\ ~SIMPY_OK
    /\ response.status = "complete"
    /\ request.edges # <<>>
    /\ request.scenario.events # <<>>
    /\ Script("b1") = "fail"
    /\ response.metrics["b1"].processed_count > 0

-----------------------------------------------------------------------------
(* C15 *)

\* C15: an error response is clean on both paths: errors carries the fault
\* message (and the traceback), metrics and timeline are empty, whatever the
\* run had counted and appended before the fault.
C15_ErrorResponseIsClean ==
    \A i \in 1..Len(Exchanges) :
        Exchanges[i].response.status = "error" =>
            /\ Exchanges[i].response.metrics = NoMetrics
            /\ Exchanges[i].response.timeline = <<>>
            /\ Len(Exchanges[i].response.errors) = 2
            /\ Exchanges[i].response.errors[1]
                  \in {"Negative delay -1", "could not convert string to float"}

\* the run was aborted by b2's policy after b1 had processed an item and the
\* timeline held a stimulus and a processed entry
C15_Witness ==
    /\ SIMPY_OK
    /\ response.status = "error"
    /\ pc["b2"] = "failed"
    /\ block_counters["b1"].processed >= 1
    /\ CountEntries(timeline, {"stimulus"}, "b1") >= 1
    /\ CountEntries(timeline, {"processed"}, "b1") >= 1

-----------------------------------------------------------------------------
(* C16 *)

\* two requests agree on duration_ms and on every block's sim_params
SameParameters(r, q) ==
    /\ r.scenario.duration_ms = q.scenario.duration_ms
    /\ \A b \in BlockIds :
          r.block_behaviors[b].sim_params = q.block_behaviors[b].sim_params

\* C16: without simpy, two invocations that agree on duration_ms and on the
\* blocks' sim_params yield identical metrics, whatever their edges, stimulus
\* events and policies are and however many invocations came before.
C16_MetricsOfParametersOnly ==
    ~SIMPY_OK =>
        \A i, j \in 1..Len(Exchanges) :
            SameParameters(Exchanges[i].request, Exchanges[j].request) =>
                Exchanges[i].response.metrics = Exchanges[j].response.metrics

\* three invocations, two of which agree on the parameters and differ in the
\* edges, the events and the policy, and differ in the parameters from the third
C16_Witness ==
    /\ ~SIMPY_OK
    /\ Len(Exchanges) = 3
    /\ SameParameters(Exchanges[1].request, Exchanges[3].request)
    /\ Exchanges[1].request.edges # Exchanges[3].request.edges
    /\ Exchanges[1].request.scenario.events # Exchanges[3].request.scenario.events
    /\ Exchanges[1].request.block_behaviors["b1"].sim_script
          # Exchanges[3].request.block_behaviors["b1"].sim_script
    /\ ~SameParameters(Exchanges[1].request, Exchanges[2].request)
    /\ Exchanges[1].response.metrics # Exchanges[2].response.metrics

-----------------------------------------------------------------------------
(* C17 *)

\* C17: the approximator reports processed_count 100, failures 0 and
\* utilization 1.0 for a block with processing_time_ms 100, failure_rate 0 and
\* no throughput_per_sec in a run of 10000 ms; for every block it reports
\* queue_depth 0 and utilization min(processing_time_ms * processed / duration_ms, 1.0)
\* rounded to 4 decimals, with its own processing_time_ms, processed and
\* duration_ms.
C17_ApproximatorExample ==
    (~SIMPY_OK /\ response.status = "complete") =>
        \A b \in BlockIds :
            LET m == response.metrics[b]
                work == processing_time_ms(b) * DetProcessed(b)
            IN /\ m.queue_depth = 0
               /\ duration_ms > 0
               /\ m.utilization = IF work >= duration_ms THEN Scale
                                   ELSE RoundDiv(work, duration_ms)
               /\ ( /\ request.scenario.duration_ms = 10000
                     /\ params(b).processing_time_ms = 100
                     /\ params(b).failure_rate = 0
                     /\ params(b).throughput_per_sec = None )
                   => m.processed_count = 100 /\ m.failures = 0 /\ m.utilization = Scale

\* the scenario of the example, and a block whose work does not fill the run
C17_Witness ==
    /\ ~SIMPY_OK
    /\ response.status = "complete"
    /\ request.scenario.duration_ms = 10000
    /\ params("b2").processing_time_ms = 100 /\ params("b2").failure_rate = 0
    /\ response.metrics["b2"].processed_count = 100
    /\ response.metrics["b1"].utilization > 0
    /\ response.metrics["b1"].utilization < Scale
    /\ response.metrics["b1"].failures > 0

-----------------------------------------------------------------------------
(* C18 *)

\* the stimulus events[i] has been attempted by the injector
Attempted(i) == \E k \in 1..Len(attempts) : attempts[k].idx = i

\* the simulated time at which block b's current item ends
EndsAt(b) == locals[b].start + locals[b].proc_time

Halted == SIMPY_OK /\ response.status = "complete"

\* C18 (as claimed): when the run has halted, every stimulus with
\* time_ms <= duration_ms has been delivered and every item whose processing
\* ends at or before duration_ms has been counted and recorded.
C18_ResumesUpToBound ==
    Halted =>
        /\ \A i \in 1..Len(events) : TimeKey(events[i]) <= duration_ms => Attempted(i)
        /\ \A b \in BlockIds : pc[b] = "timeout" => EndsAt(b) > duration_ms

\* C18 (amended): the scheduler resumes the wake-ups whose time is strictly less
\* than the duration bound and abandons those at the bound or later: nothing
\* is delivered, counted or recorded at a time >= duration_ms, and the run
\* halts with now = duration_ms once everything earlier has been resumed.
C18_ResumesBeforeBoundOnly ==
    SIMPY_OK =>
        /\ now <= duration_ms
        /\ \A k \in 1..Len(attempts) : attempts[k].time < duration_ms
        /\ \A k \in 1..Len(timeline) : timeline[k].timestamp_ms < duration_ms
        /\ Halted =>
              /\ now = duration_ms
              /\ \A k \in 1..Len(queue) : queue[k].time >= duration_ms
              /\ \A i \in 1..Len(events) :
                    Attempted(i) <=> TimeKey(events[i]) < duration_ms
              /\ \A b \in BlockIds : pc[b] = "timeout" => EndsAt(b) >= duration_ms

\* the run halted with a stimulus for b1 due at duration_ms that was not
\* delivered and an item of b1 ending at duration_ms that was not counted
C18_Witness ==
    /\ Halted
    /\ \E i \in 1..Len(events) :
          /\ events[i].block_id = "b1"
          /\ TimeKey(events[i]) = duration_ms
          /\ ~Attempted(i)
    /\ pc["b1"] = "timeout"
    /\ EndsAt("b1") = duration_ms
    /\ Completed("b1") = 0

-----------------------------------------------------------------------------
(* C19 *)

\* block b has taken an item whose processing duration has not elapsed
InFlight(b) == pc[b] = "timeout"

\* the sum of the elapsed times of block b's processed and failure entries
RECURSIVE SumElapsed(_, _)
SumElapsed(tl, b) ==
    IF tl = <<>> THEN 0
    ELSE (IF Head(tl).block_id = b /\ Head(tl).event_type # "stimulus"
          THEN Head(tl).detail.elapsed ELSE 0) + SumElapsed(Tail(tl), b)

\* the accepted stimuli of block c
StimuliAccepted(c) ==
    Cardinality({k \in AcceptedAttempts : events[attempts[k].idx].block_id = c})

\* the number of connects edges into c from the blocks of the sequence bs, each
\* weighted by the number of items its source processed
RECURSIVE ForwardAttempts(_, _)
ForwardAttempts(bs, c) ==
    IF bs = <<>> THEN 0
    ELSE block_counters[Head(bs).id].processed * EdgeCount(Head(bs).id, c, 1)
         + ForwardAttempts(Tail(bs), c)

\* C19: when the run halts, the item a block has in processing is abandoned: it
\* is in neither processed nor failures, has added nothing to the busy time,
\* has no timeline entry, was forwarded nowhere and is not part of queue_depth.
C19_InFlightItemAbandoned ==
    Halted =>
        \A b \in BlockIds :
            LET m == response.metrics[b]
                e == CountEntries(response.timeline, {"processed", "failure"}, b)
            IN /\ m.processed_count + m.failures + m.queue_depth
                     + (IF InFlight(b) THEN 1 ELSE 0) = accepted[b]
               /\ e = m.processed_count + m.failures
               /\ locals[b].item_seq = e + (IF InFlight(b) THEN 1 ELSE 0)
               /\ block_counters[b].busy_time = SumElapsed(response.timeline, b)
               /\ m.utilization = Utilization(SumElapsed(response.timeline, b))
               /\ accepted[b] <= StimuliAccepted(b) + ForwardAttempts(block_nodes, b)

\* the run halted while b1 was processing its first item, with a second item
\* waiting in its Store and the edges of b1 leading to b2
C19_Witness ==
    /\ Halted
    /\ InFlight("b1")
    /\ EndsAt("b1") > duration_ms
    /\ response.metrics["b1"].queue_depth = 1
    /\ accepted["b1"] = 2
    /\ EdgeCount("b1", "b2", 1) >= 1
    /\ accepted["b2"] = 0

-----------------------------------------------------------------------------
(* C20 *)

\* wake-up e comes before wake-up f in (time, insertion sequence) order
Earlier(e, f) == e.time < f.time \/ (e.time = f.time /\ e.eid < f.eid)

\* in every state of a run: now >= 0, no pending wake-up lies before now, and a
\* run starts at now = 0 with the block processes registered in block order,
\* before the injector
PendingNotBeforeNow ==
    SIMPY_OK =>
        /\ now >= 0
        /\ \A k \in 1..Len(queue) : queue[k].time >= now
        /\ AtStart =>
              /\ now = 0
              /\ \A i \in 1..Len(block_nodes) :
                    /\ queue[i].proc = block_nodes[i].id
                    /\ queue[i].eid = i - 1
              /\ request.scenario.events # <<>> =>
                    /\ queue[Len(block_nodes) + 1].proc = "injector"
                    /\ queue[Len(block_nodes) + 1].eid = Len(block_nodes)

\* a step of the scheduler resumes the pending wake-up that is the earliest in
\* (time, insertion sequence) order, moves now to its time, never backwards,
\* and keeps the other pending wake-ups
ResumesEarliest ==
    Running =>
        /\ now' = NextEvent.time
        /\ now' >= now
        /\ \A k \in 2..Len(queue) :
              /\ Earlier(NextEvent, queue[k])
              /\ \E j \in 1..Len(queue') : queue'[j] = queue[k]

\* C20: suspended processes are resumed in non-decreasing (time, insertion
\* sequence) order: now starts at 0 and never decreases, every pending
\* wake-up has time >= now, and of the wake-ups of equal time the one
\* registered earlier is resumed first.
C20_ResumedInTimeAndInsertionOrder ==
    [](PendingNotBeforeNow) /\ [][ResumesEarliest]_vars

\* the scheduler is about to resume one of three wake-ups of the same time, two
\* of which were registered by different processes after the run started
C20_Witness ==
    /\ Running
    /\ Len(queue) >= 3
    /\ now > 0
    /\ queue[1].time = queue[2].time /\ queue[2].time = queue[3].time
    /\ queue[1].proc # queue[2].proc
    /\ queue[1].priority = NORMAL /\ queue[2].priority = NORMAL
    /\ queue[3].kind = "timeout"

-----------------------------------------------------------------------------
(* C21 *)

\* edge i is a connects edge of block b to an existing block
Outgoing(b, i) ==
    /\ request.edges[i].kind = "connects"
    /\ request.edges[i].source_id = b
    /\ request.edges[i].target_id \in BlockIds

\* the insert made for edge i finds room: fewer edges of b up to i lead to its
\* target than the target's Store has free places
FindsRoom(b, i) ==
    LET c == request.edges[i].target_id
    IN Cardinality({j \in 1..i : Outgoing(b, j) /\ request.edges[j].target_id = c})
           <= capacity(c) - Len(items[c])

\* the targets of the accepted inserts of block b, in edge-list order
RECURSIVE AcceptedTargets(_, _)
AcceptedTargets(b, i) ==
    IF i > Len(request.edges) THEN <<>>
    ELSE (IF Outgoing(b, i) /\ FindsRoom(b, i)
          THEN << request.edges[i].target_id >> ELSE <<>>)
         \o AcceptedTargets(b, i + 1)

\* the Stores named by the Put events the step has scheduled, in the order in
\* which they were scheduled
IsNewPut(e) == e.kind = "put" /\ e.eid >= eid
NewPuts ==
    LET puts == SelectSeq(queue', IsNewPut)
    IN [k \in 1..Len(puts) |-> puts[k].proc]

\* the step is block b completing an item that failed
Fails(b) == block_counters'[b].failures = block_counters[b].failures + 1

\* C21: a block that completes an item successfully makes one insert for each
\* of its connects edges to an existing block, in edge-list order, k edges to
\* one target giving k copies as far as there is room, and skips the other
\* edges; a block that completes a failed item inserts nothing: no Store
\* changes but its own, from which it takes the next item.
C21_FanOutOnSuccessOnly ==
    [][ \A b \in BlockIds :
          /\ Forwards(b) =>
                /\ NewPuts = AcceptedTargets(b, 1)
                /\ \A c \in BlockIds :
                      accepted'[c] - accepted[c]
                          = Cardinality({i \in 1..Len(request.edges) :
                                Outgoing(b, i) /\ FindsRoom(b, i)
                                /\ request.edges[i].target_id = c})
          /\ Fails(b) =>
                /\ NewPuts = <<>>
                /\ accepted' = accepted
                /\ \A c \in BlockIds :
                      items'[c] = IF c = b /\ items[b] # <<>> THEN Tail(items[b])
                                  ELSE items[c] ]_vars

\* b1 has failed an item and has then forwarded an item to itself and to b2,
\* in the order of its two edges
C21_Witness ==
    /\ SIMPY_OK
    /\ \E i, j \in 1..Len(queue) :
          /\ i < j
          /\ queue[i].kind = "put" /\ queue[i].proc = "b1"
          /\ queue[j].kind = "put" /\ queue[j].proc = "b2"
          /\ queue[j].eid = queue[i].eid + 1
    /\ block_counters["b1"].processed >= 1
    /\ block_counters["b1"].failures >= 1
    /\ Len(request.edges) = 2

-----------------------------------------------------------------------------
(* C22 *)

\* the simulated time at which the injector registered its pending timeout
InjectorResumedAt == IF attempts = <<>> THEN 0 ELSE attempts[Len(attempts)].time

\* C22: the injector walks the stimuli in non-decreasing time_ms order, those of
\* equal time_ms in the order of the scenario's list, whatever the order of
\* that list; it attempts a stimulus with time_ms >= 0 at simulated time
\* time_ms and one with a negative time_ms at time 0, and the delay it asks
\* the scheduler for is never negative.
C22_StimuliInTimeOrder ==
    SIMPY_OK =>
        LET given == request.scenario.events
        IN /\ Len(events) = Len(given)
           /\ \A i \in 1..Len(events) :
                 /\ events[i].value \in 1..Len(given)
                 /\ events[i] = given[events[i].value]
           /\ \A i, j \in 1..Len(events) :
                 i < j => \/ events[i].time_ms < events[j].time_ms
                          \/ /\ events[i].time_ms = events[j].time_ms
                             /\ events[i].value < events[j].value
           /\ \A k \in 1..Len(attempts) :
                 /\ attempts[k].idx = k
                 /\ attempts[k].time = Max(0, events[k].time_ms)
           /\ \A k \in 1..Len(queue) :
                 (queue[k].proc = "injector" /\ queue[k].kind = "timeout") =>
                     /\ queue[k].time - InjectorResumedAt >= 0
                     /\ queue[k].time = Max(InjectorResumedAt, events[inj_idx].time_ms)

\* the scenario's list was not in time order and began with a stimulus of
\* time_ms 2; the stimulus of negative time_ms was attempted first, at time 0,
\* and the stimulus of time_ms 2 last, at time 2
C22_Witness ==
    /\ SIMPY_OK
    /\ Len(attempts) = 2
    /\ request.scenario.events[1].time_ms = 2
    /\ request.scenario.events[2].time_ms < 0
    /\ attempts[1].time = 0
    /\ attempts[2].time = 2

-----------------------------------------------------------------------------
(* C23 *)

\* the items of block b's timeline entries, in the order of the entries
RECURSIVE CompletedSeqs(_, _)
CompletedSeqs(tl, b) ==
    IF tl = <<>> THEN <<>>
    ELSE (IF Head(tl).block_id = b /\ Head(tl).event_type # "stimulus"
          THEN << Head(tl).detail.item_seq >> ELSE <<>>)
         \o CompletedSeqs(Tail(tl), b)

\* the Get events of block b that are pending
PendingGets(b) == {k \in 1..Len(queue) : queue[k].kind = "get" /\ queue[k].proc = b}

\* C23: a block takes the items of its Store in the order in which the Store
\* accepted them, from the injector or from a block: the k-th item it takes is
\* the k-th item accepted, the Store holds the items accepted after it in
\* their order, and the items are completed in that order.
C23_StoreIsFifo ==
    SIMPY_OK =>
        \A b \in BlockIds :
            LET taken == locals[b].item_seq + Cardinality(PendingGets(b))
            IN /\ \A k \in 1..Len(items[b]) : items[b][k].n = taken + k
               /\ accepted[b] = taken + Len(items[b])
               /\ \A k \in PendingGets(b) : queue[k].value.n = locals[b].item_seq + 1
               /\ pc[b] = "timeout" => locals[b].item.n = locals[b].item_seq
               /\ LET done == CompletedSeqs(timeline, b)
                  IN \A k \in 1..Len(done) : done[k] = k

\* b1 is processing the second item it accepted, a forwarded one, has completed
\* the first, and holds the third, a stimulus, in its Store
C23_Witness ==
    /\ SIMPY_OK
    /\ pc["b1"] = "timeout"
    /\ locals["b1"].item.n = 2
    /\ locals["b1"].item.src = "b1"
    /\ CompletedSeqs(timeline, "b1") = << 1 >>
    /\ Len(items["b1"]) = 1
    /\ items["b1"][1].src = "stimulus"

-----------------------------------------------------------------------------
(* C24 *)

\* the timeouts of block b that are pending
PendingTimeouts(b) == {k \in 1..Len(queue) : queue[k].kind = "timeout" /\ queue[k].proc = b}

\* the entries of block b in the timeline
ItemEntries(b) ==
    {k \in 1..Len(timeline) :
        timeline[k].block_id = b /\ timeline[k].event_type # "stimulus"}

\* the simulated time at which the item of entry k was taken
StartOf(k) == timeline[k].timestamp_ms - timeline[k].detail.elapsed

\* the states of a block process: WaitingForItem is a waiting Get (the Store is
\* empty, or holds items whose Put has not been processed yet) or a Get that
\* has an item and has not resumed the process yet, Processing is the pending
\* timeout of the one item taken; Forwarding is inside the step that ends it
WaitingForItem(b) ==
    /\ pc[b] = "get"
    /\ PendingTimeouts(b) = {}
    /\ IF get_queue[b]
       THEN /\ PendingGets(b) = {}
            /\ items[b] # <<>> =>
                  \E k \in 1..Len(queue) : queue[k].kind = "put" /\ queue[k].proc = b
       ELSE Cardinality(PendingGets(b)) = 1

Processing(b) ==
    /\ pc[b] = "timeout"
    /\ PendingGets(b) = {} /\ ~get_queue[b]
    /\ Cardinality(PendingTimeouts(b)) = 1
    /\ \A k \in PendingTimeouts(b) : queue[k].time = EndsAt(b)
    /\ \A k \in ItemEntries(b) : timeline[k].timestamp_ms <= locals[b].start

\* the process of block b has died of a fault that aborts the run at this
\* simulated instant
Aborting(b) ==
    /\ pc[b] = "failed"
    /\ response.status = "error"
       \/ \E k \in 1..Len(queue) :
             queue[k].kind = "process_fail" /\ queue[k].proc = b /\ queue[k].time = now

\* C24: a block process is waiting for an item or processing exactly one item,
\* it takes the next item only when the duration of the current one has
\* elapsed, so the processing intervals of a block do not overlap, and it
\* stops only with the run.
C24_OneItemAtATime ==
    SIMPY_OK =>
        \A b \in BlockIds :
            /\ pc[b] = "init" \/ WaitingForItem(b) \/ Processing(b) \/ Aborting(b)
            /\ \A i, j \in ItemEntries(b) :
                  i < j => timeline[i].timestamp_ms <= StartOf(j)

\* b1 is processing its third item, taken at the time its second item ended,
\* while an item waits in its Store
C24_Witness ==
    /\ SIMPY_OK
    /\ Processing("b1")
    /\ locals["b1"].item_seq = 3
    /\ items["b1"] # <<>>
    /\ \E k \in ItemEntries("b1") :
          /\ timeline[k].detail.item_seq = 2
          /\ timeline[k].timestamp_ms = locals["b1"].start
          /\ timeline[k].detail.elapsed > 0

-----------------------------------------------------------------------------
(* C25 *)

\* the durations the policy of block b can return for an item with the given
\* outcome
PolicyDurations(b, failed) == {p.proc_time : p \in {q \in Policy(b) : q.failed = failed}}

\* u is the multiple of 1/Scale nearest to min(busy / d, 1)
NearestRatio(u, busy, d) ==
    LET x == Min(busy, d) * Scale
    IN 2 * (u * d - x) <= d /\ 2 * (x - u * d) <= d

\* C25: at halt the busy time of each block is the sum of the durations its
\* policy returned for the items it completed, processed or failed, and of no
\* other item, and the reported metrics are utilization = min(busy_time /
\* duration_ms, 1) (to four decimals), queue_depth = the number of items in the
\* block's Store and processed_count and failures = the block's counters.
C25_BusyTimeAndMetrics ==
    Halted =>
        \A b \in BlockIds :
            LET m == response.metrics[b]
                c == block_counters[b]
            IN /\ \A k \in ItemEntries(b) :
                     timeline[k].detail.elapsed
                        \in PolicyDurations(b, timeline[k].event_type = "failure")
               /\ Cardinality(ItemEntries(b)) = c.processed + c.failures
               /\ c.busy_time = SumElapsed(timeline, b)
               /\ \A p \in Policy(b) : c.busy_time = (c.processed + c.failures) * p.proc_time
               /\ NearestRatio(m.utilization, c.busy_time, duration_ms)
               /\ m.queue_depth = Len(items[b])
               /\ m.processed_count = c.processed
               /\ m.failures = c.failures

\* the run halted after b1 completed a failed item and a processed one, and
\* its busy time is reported as a positive utilization
C25_Witness ==
    /\ Halted
    /\ block_counters["b1"].failures >= 1
    /\ block_counters["b1"].processed >= 1
    /\ block_counters["b1"].busy_time >= 2
    /\ response.metrics["b1"].utilization > 0

-----------------------------------------------------------------------------
(* C26 *)

\* the approximator has answered the request
Approximated == ~SIMPY_OK /\ response.status = "complete"

\* the rule over the configured values: throughput_per_sec when it is given,
\* 0 included, else processing_time_ms when it is positive, else 0
ProcessedOfGiven(b) ==
    IF params(b).throughput_per_sec # None
    THEN (params(b).throughput_per_sec * duration_ms) \div 1000
    ELSE IF params(b).processing_time_ms > 0
         THEN duration_ms \div params(b).processing_time_ms
         ELSE 0

\* C26 (as claimed): the approximator computes processed from throughput_per_sec
\* whenever it is given, 0 included, as floor(throughput_per_sec * duration_ms
\* / 1000), otherwise as floor(duration_ms / processing_time_ms) when
\* processing_time_ms > 0, and as 0 when processing_time_ms is given as 0;
\* with failure_rate 0 the reported processed_count is this value.
C26_ProcessedOfGivenValues ==
    Approximated =>
        \A b \in BlockIds :
            params(b).failure_rate = 0 =>
                response.metrics[b].processed_count = ProcessedOfGiven(b)

-----------------------------------------------------------------------------
(* C27 *)

\* f is floor(n * rate), the rate in percent
IsFloorOfShare(f, n, rate) == f * 100 <= n * rate /\ n * rate < (f + 1) * 100

-----------------------------------------------------------------------------
(* C28 *)

\* the number of items block b has taken from its Store and not counted yet:
\* the item of a Get that has not resumed the process, the item whose duration
\* is elapsing, or the item on which the process died
InProcessing(b) ==
    IF PendingGets(b) # {} \/ pc[b] \in {"timeout", "failed"} THEN 1 ELSE 0

\* C28: at every point of an engine run, the number of items accepted into a
\* block's Store is processed + failures + the number of items in the Store +
\* the number of items the block has in processing, which is 0 or 1, and the
\* item in processing is the one accepted next after the counted ones.
C28_ItemConservation ==
    SIMPY_OK =>
        \A b \in BlockIds :
            /\ accepted[b] = Completed(b) + Len(items[b]) + InProcessing(b)
            /\ Cardinality(PendingGets(b)) + (IF pc[b] \in {"timeout", "failed"} THEN 1 ELSE 0) <= 1
            /\ \A k \in PendingGets(b) : queue[k].value.n = Completed(b) + 1
            /\ pc[b] = "timeout" => locals[b].item.n = Completed(b) + 1
            /\ \A k \in 1..Len(items[b]) :
                  items[b][k].n = Completed(b) + InProcessing(b) + k

\* b1 has counted one processed and one failed item, is processing a third and
\* holds a fourth in its Store
C28_Witness ==
    /\ SIMPY_OK
    /\ block_counters["b1"].processed = 1
    /\ block_counters["b1"].failures = 1
    /\ pc["b1"] = "timeout"
    /\ Len(items["b1"]) = 1
    /\ accepted["b1"] = 4

-----------------------------------------------------------------------------
(* C29 *)

\* the step is block b completing an item
Completes(b) == Running /\ NextEvent.kind = "timeout" /\ NextEvent.proc = b

\* the entries of the timeline tl that are not in its first n entries
EntriesAfter(tl, n) == SubSeq(tl, n + 1, Len(tl))

\* C29: every item a block completes increments exactly one of processed and
\* failures by one and appends exactly one timeline entry, of the matching
\* event_type and of that block; so the "processed" entries of a block are as
\* many as its processed counter and the "failure" entries as many as its
\* failures counter, during the run and in the final response.
C29_CountersMatchTimeline ==
    /\ [](\A b \in BlockIds :
            /\ CountEntries(timeline, {"processed"}, b) = block_counters[b].processed
            /\ CountEntries(timeline, {"failure"}, b) = block_counters[b].failures
            /\ Halted =>
                  /\ CountEntries(response.timeline, {"processed"}, b)
                        = response.metrics[b].processed_count
                  /\ CountEntries(response.timeline, {"failure"}, b)
                        = response.metrics[b].failures)
    /\ [][\A b \in BlockIds :
            Completes(b) =>
                LET c == block_counters[b]
                    d == block_counters'[b]
                    new == EntriesAfter(timeline', Len(timeline))
                IN /\ Len(new) = 1
                   /\ new[1].block_id = b
                   /\ \/ /\ new[1].event_type = "processed"
                         /\ d.processed = c.processed + 1 /\ d.failures = c.failures
                      \/ /\ new[1].event_type = "failure"
                         /\ d.failures = c.failures + 1 /\ d.processed = c.processed]_vars

\* the final response of a run in which b1 completed a processed item and a
\* failed one
C29_Witness ==
    /\ Halted
    /\ response.metrics["b1"].processed_count >= 1
    /\ response.metrics["b1"].failures >= 1
    /\ CountEntries(response.timeline, {"failure"}, "b1") >= 1
    /\ CountEntries(response.timeline, {"stimulus"}, "b1") >= 2

-----------------------------------------------------------------------------
(* C30 *)

\* the ids of the nodes of kind "block"
BlockNodeIds == {Nodes[i].id : i \in {j \in 1..Len(Nodes) : Nodes[j].kind = "block"}}

\* the stimulus names no block node: its target is missing, or is the id of a
\* node of another kind
Untargeted(ev) == ev.block_id \notin BlockNodeIds

\* the injector's wake-ups that are pending in the queue q
InjectorWakeUps(q) ==
    {k \in 1..Len(q) : q[k].proc = "injector" /\ q[k].kind = "timeout"}

\* C30: the injector's step for a stimulus whose target is missing or names no
\* block node changes no Store and no counter and appends no timeline entry,
\* and the injector goes on: it waits for the next stimulus until that
\* stimulus's own time, and every stimulus due before the end of the run is
\* attempted at its time; the metrics have one entry for each node of kind
\* "block" and no other entry.
C30_UntargetedStimulusIsSkipped ==
    /\ [](Halted =>
            /\ DOMAIN response.metrics = BlockNodeIds
            /\ \A i \in 1..Len(events) :
                  TimeKey(events[i]) < duration_ms =>
                      \E k \in 1..Len(attempts) :
                          /\ attempts[k].idx = i
                          /\ attempts[k].time = Max(0, TimeKey(events[i])))
    /\ [][(InjectorDelivers /\ Untargeted(events[inj_idx])) =>
            /\ items' = items
            /\ accepted' = accepted
            /\ get_queue' = get_queue
            /\ block_counters' = block_counters
            /\ timeline' = timeline
            /\ response' = response
            /\ ~attempts'[Len(attempts')].accepted
            /\ inj_idx < Len(events) =>
                  /\ pc'["injector"] = "timeout"
                  /\ \E k \in InjectorWakeUps(queue') :
                        queue'[k].time = Max(now', TimeKey(events[inj_idx + 1]))]_vars

\* the run halted after a stimulus at time 0 without a target, which was
\* skipped, and a later stimulus of the list, which b1 accepted at its own
\* time 2
C30_Witness ==
    /\ Halted
    /\ \E k, l \in 1..Len(attempts) :
          /\ k < l
          /\ events[attempts[k].idx].block_id = ""
          /\ ~attempts[k].accepted
          /\ attempts[k].time = 0
          /\ events[attempts[l].idx].block_id = "b1"
          /\ attempts[l].accepted
          /\ attempts[l].time = 2
    /\ CountEntries(response.timeline, {"stimulus"}, "b1") >= 2

-----------------------------------------------------------------------------
(* C31 *)

\* the word tokens of the i-th result of the list rs
WordSet(rs, i) == tokens(rs[i].sentence)

\* the Jaccard overlap of the token sets a and b is defined and >= 0.75
JaccardAtLeastThreeQuarters(a, b) ==
    /\ a \cup b # {}
    /\ 4 * Cardinality(a \cap b) >= 3 * Cardinality(a \cup b)

\* the list s is the list t in another order: each result occurs as often
IsPermutation(s, t) ==
    /\ Len(s) = Len(t)
    /\ \A x \in {s[i] : i \in 1..Len(s)} \cup {t[i] : i \in 1..Len(t)} :
          Cardinality({i \in 1..Len(s) : s[i] = x})
             = Cardinality({i \in 1..Len(t) : t[i] = x})

\* the list rs without the duplicate flags deduplicate sets
Unmarked(rs) == [i \in 1..Len(rs) |-> [rs[i] EXCEPT !.duplicate = FALSE]]

\* C31: deduplicate walks the results in score order and marks a result
\* duplicate exactly when its word-token set has Jaccard overlap >= 0.75 with
\* an earlier result that is not marked duplicate; the first result is never
\* marked, a result marked duplicate is no comparison base for later results,
\* and the list it returns has the results it was given, each once, in the
\* order of the sort (by score, highest first, equal scores in the order
\* scored).
C31_DuplicateOfEarlierKept ==
    parser_pc = "done" =>
        /\ IsPermutation(Unmarked(results), scored)
        /\ \A i, j \in 1..Len(results) : i < j => results[i].score >= results[j].score
        /\ Unmarked(results) = sort_by_score(scored)
        /\ results # <<>> => ~results[1].duplicate
        /\ \A i \in 1..Len(results) :
              results[i].duplicate <=>
                  \E j \in 1..(i - 1) :
                      /\ ~results[j].duplicate
                      /\ JaccardAtLeastThreeQuarters(WordSet(results, i), WordSet(results, j))

\* three results in score order: the second overlaps the first by exactly
\* 0.75 and is marked; the third overlaps the second by 0.8 and the first by
\* 0.6 and is not marked, the second being no comparison base
C31_Witness ==
    /\ parser_pc = "done"
    /\ Len(results) = 3
    /\ scored # sort_by_score(scored)
    /\ results[2].duplicate
    /\ 4 * Cardinality(WordSet(results, 1) \cap WordSet(results, 2))
          = 3 * Cardinality(WordSet(results, 1) \cup WordSet(results, 2))
    /\ ~results[3].duplicate
    /\ JaccardAtLeastThreeQuarters(WordSet(results, 3), WordSet(results, 2))
    /\ ~JaccardAtLeastThreeQuarters(WordSet(results, 3), WordSet(results, 1))
    /\ WordSet(results, 1) # {}

====
